---------------------------- MODULE Spec2Model ----------------------------
(* State-machine model of the weekly GitHub activity report (src/main.go):  *)
(* organizeEvents -> makeEventSets (getPRs) -> markdown -> Println.         *)
(* Strings are sequences of one-character strings, so that formatting,      *)
(* splitting and parsing are computed and not assumed.                      *)
EXTENDS Integers, Sequences, FiniteSets, TLC

VARIABLES
    pc,        \* position of main(): decode, organize, getPRs, markdown, done, exit
    parsed,    \* organizeEvents: the decoded payloads, in arrival order
    idx,       \* organizeEvents: index of the next payload of the second loop
    names,     \* issuesAndPRs.names : url -> display name
    issues,    \* issuesAndPRs.issues: its key set
    prs,       \* issuesAndPRs.prs   : url -> prInfo
    newPRs,    \* getPRs: url -> freshly fetched pull request
    queries,   \* number of PullRequests.Get calls issued, per url
    es,        \* the eventSets value built by makeEventSets
    out,       \* what main() printed on standard output
    err,       \* the message of the log.Fatalf that ended the run, if any
    crackIn,   \* argument of a stand-alone crackPRInfo call
    crackOut   \* its result

vars == <<pc, parsed, idx, names, issues, prs, newPRs, queries, es, out, err,
          crackIn, crackOut>>

-----------------------------------------------------------------------------
(* Bounds *)

MaxEvents == 2
MaxRest == 6

-----------------------------------------------------------------------------
(* strings package *)

HasPrefix(s, p) == Len(s) >= Len(p) /\ SubSeq(s, 1, Len(p)) = p

TrimPrefix(s, p) == IF HasPrefix(s, p) THEN SubSeq(s, Len(p) + 1, Len(s)) ELSE s

RECURSIVE Split(_, _)
Split(s, sep) ==
    IF \E k \in 1..Len(s) : s[k] = sep
    THEN LET k == CHOOSE k \in 1..Len(s) :
                      s[k] = sep /\ \A j \in 1..(k - 1) : s[j] # sep
         IN  <<SubSeq(s, 1, k - 1)>> \o Split(SubSeq(s, k + 1, Len(s)), sep)
    ELSE <<s>>

RECURSIVE Join(_, _)
Join(ls, sep) ==
    IF Len(ls) = 0 THEN <<>>
    ELSE IF Len(ls) = 1 THEN ls[1]
    ELSE ls[1] \o sep \o Join(Tail(ls), sep)

\* strings.Replace(s, old, new, -1) for a one-character old, by halving.
RECURSIVE Replace(_, _, _)
Replace(s, old, new) ==
    IF Len(s) = 0 THEN <<>>
    ELSE IF Len(s) = 1 THEN (IF s[1] = old THEN new ELSE s)
    ELSE LET h == Len(s) \div 2
         IN  Replace(SubSeq(s, 1, h), old, new)
                \o Replace(SubSeq(s, h + 1, Len(s)), old, new)

-----------------------------------------------------------------------------
(* strconv.Atoi: an optional sign, then one or more decimal digits.  The    *)
(* inputs of this model are shorter than any value out of the int range.    *)

Digits == {"0", "1", "2", "3", "4", "5", "6", "7", "8", "9"}

DigitVal(c) ==
    CASE c = "0" -> 0 [] c = "1" -> 1 [] c = "2" -> 2 [] c = "3" -> 3
      [] c = "4" -> 4 [] c = "5" -> 5 [] c = "6" -> 6 [] c = "7" -> 7
      [] c = "8" -> 8 [] c = "9" -> 9

RECURSIVE DecVal(_)
DecVal(ds) ==
    IF Len(ds) = 0 THEN 0
    ELSE 10 * DecVal(SubSeq(ds, 1, Len(ds) - 1)) + DigitVal(ds[Len(ds)])

Atoi(s) ==
    LET signed == Len(s) > 0 /\ s[1] \in {"+", "-"}
        ds     == IF signed THEN Tail(s) ELSE s
        okDs   == Len(ds) > 0 /\ \A k \in 1..Len(ds) : ds[k] \in Digits
    IN  IF ~okDs THEN [ok |-> FALSE, n |-> 0]
        ELSE [ok |-> TRUE,
              n  |-> IF signed /\ s[1] = "-" THEN 0 - DecVal(ds) ELSE DecVal(ds)]

-----------------------------------------------------------------------------
(* crackPRInfo *)

Prefix == <<"h","t","t","p","s",":","/","/","g","i","t","h","u","b",".","c","o","m","/">>

NoInfo == [owner |-> <<>>, repo |-> <<>>, number |-> 0]

\* Variant of crackPRInfo with the indices off by one: three splits, the third parsed.
CrackFewerSplitsMut(url) ==
    LET splits == Split(TrimPrefix(url, Prefix), "/")
        a      == IF Len(splits) >= 3 THEN Atoi(splits[3]) ELSE [ok |-> FALSE, n |-> 0]
    IN  IF ~HasPrefix(url, Prefix) THEN [ok |-> FALSE, msg |-> "Bad prefix", info |-> NoInfo]
        ELSE IF Len(splits) < 3
        THEN [ok |-> FALSE, msg |-> "Incorrect number of splits", info |-> NoInfo]
        ELSE IF ~a.ok
        THEN [ok |-> FALSE, msg |-> "Unable to parse the fourth split", info |-> NoInfo]
        ELSE [ok |-> TRUE, msg |-> "",
              info |-> [owner |-> splits[1], repo |-> splits[2], number |-> a.n]]

\* ok = FALSE stands for the log.Fatalf of that branch; msg is its message.
CrackPRInfo(url) ==
    LET splits == Split(TrimPrefix(url, Prefix), "/")
        a      == IF Len(splits) >= 4 THEN Atoi(splits[4]) ELSE [ok |-> FALSE, n |-> 0]
    IN  IF ~HasPrefix(url, Prefix) THEN [ok |-> FALSE, msg |-> "Bad prefix", info |-> NoInfo]
        ELSE IF Len(splits) < 4
        THEN [ok |-> FALSE, msg |-> "Incorrect number of splits", info |-> NoInfo]
        ELSE IF ~a.ok
        THEN [ok |-> FALSE, msg |-> "Unable to parse the fourth split", info |-> NoInfo]
        ELSE [ok |-> TRUE, msg |-> "",
              info |-> [owner |-> splits[1], repo |-> splits[2], number |-> a.n]]

-----------------------------------------------------------------------------
(* Inputs: identifiers, titles, events and remote answers *)

U1 == Prefix \o <<"o","/","r","/","p","u","l","l","/","1">>
U2 == Prefix \o <<"o","/","r","/","i","s","s","u","e","s","/","2">>
UBad == Prefix \o <<"o","/","r","/","p","u","l","l","/","x">>
UMoved == Prefix \o <<"o","/","q","/","p","u","l","l","/","1">>

URLs == {U1, U2, UBad}

TitleA == <<"A">>
TitleB == <<"B">>
TitleR == <<"R">>

EventTitles == {TitleA, TitleB}
RemoteTitles == {TitleA, TitleR}

User == "Harwayne"
Logins == {User, "octocat"}

WIPLabel == "do-not-merge/work-in-progress"
LabelLists == {<<"kind/bug">>, <<"kind/bug", WIPLabel>>}

States == {"open", "closed", "unknown"}

IssueKinds == {"IssueCommentEvent", "IssuesEvent"}
PRKinds == {"PullRequestEvent", "PullRequestReviewCommentEvent"}
IgnoredKinds == {"CommitCommentEvent", "PushEvent", "WatchEvent"}

\* The titles the events of this model carry for identifier u.
TitlesOf(u) == IF u = U1 THEN EventTitles ELSE {TitleA}

\* Decoded payloads.  isPR is Issue.IsPullRequest() and is read for issue kinds only.
Payloads ==
    {p \in [kind : IssueKinds, url : URLs, title : EventTitles, isPR : BOOLEAN]
            \cup [kind : PRKinds, url : URLs, title : EventTitles, isPR : {TRUE}] :
        p.title \in TitlesOf(p.url)}
    \cup [kind : IgnoredKinds, url : {<<>>}, title : {<<>>}, isPR : {FALSE}]

\* What PullRequests.Get may return for the pull request registered under u.
Responses(u) ==
    [login : Logins, state : States, merged : BOOLEAN, labels : LabelLists,
     title : RemoteTitles, htmlurl : {u, UMoved}]

-----------------------------------------------------------------------------
(* Maps *)

EmptyMap == [x \in {} |-> <<>>]

Put(f, k, v) == [x \in DOMAIN f \cup {k} |-> IF x = k THEN v ELSE f[x]]

NoSets == [merged |-> {}, abandoned |-> {}, underReview |-> {}, inProgress |-> {},
           reviewed |-> {}, issues |-> {}, names |-> EmptyMap]

NoCrack == [ok |-> FALSE, msg |-> "", info |-> NoInfo]

-----------------------------------------------------------------------------
(* Name registry *)

Format(title, htmlurl) == <<"[">> \o title \o <<"]", "(">> \o htmlurl \o <<")">>

\* Variant of overrideName that keeps an entry already present.
OverrideKeepMut(nm, url, title, htmlurl) ==
    IF url \in DOMAIN nm THEN nm ELSE Put(nm, url, Format(title, htmlurl))

OverrideName(nm, url, title, htmlurl) == Put(nm, url, Format(title, htmlurl))

\* Variant of addName without the presence test: the last event wins.
AddNameLastWinsMut(nm, url, title) == Put(nm, url, Format(title, url))

AddName(nm, url, title) ==
    IF url \notin DOMAIN nm THEN OverrideName(nm, url, title, url) ELSE nm

-----------------------------------------------------------------------------
(* log.Fatalf: the message is written and the process exits *)

\* Variant of log.Fatalf that logs and returns, as log.Printf does.
FatalfContinuesMut(msg) == err' = msg /\ pc' = pc

Fatalf(msg) == err' = msg /\ pc' = "exit"

-----------------------------------------------------------------------------
(* organizeEvents *)

Init ==
    /\ pc = "decode"
    /\ parsed = <<>>
    /\ idx = 1
    /\ names = EmptyMap
    /\ issues = {}
    /\ prs = EmptyMap
    /\ newPRs = EmptyMap
    /\ queries = [u \in URLs |-> 0]
    /\ es = NoSets
    /\ out = <<>>
    /\ err = ""
    /\ crackIn = <<>>
    /\ crackOut = NoCrack

\* First loop: event.ParsePayload() succeeded.
DecodeOk(p) ==
    /\ pc = "decode"
    /\ Len(parsed) < MaxEvents
    /\ parsed' = Append(parsed, p)
    /\ UNCHANGED <<pc, idx, names, issues, prs, newPRs, queries, es, out, err,
                   crackIn, crackOut>>

\* First loop: event.ParsePayload() returned an error.
DecodeFail ==
    /\ pc = "decode"
    /\ Len(parsed) < MaxEvents
    /\ Fatalf("Unable to parse event")
    /\ UNCHANGED <<parsed, idx, names, issues, prs, newPRs, queries, es, out,
                   crackIn, crackOut>>

\* The event list is exhausted; ge is allocated with three empty maps.
DecodeDone ==
    /\ pc = "decode"
    /\ pc' = "organize"
    /\ UNCHANGED <<parsed, idx, names, issues, prs, newPRs, queries, es, out, err,
                   crackIn, crackOut>>

\* Variant of addPR that does not call addName.
AddPRNoNameMut(ev) ==
    LET c == CrackPRInfo(ev.url)
    IN  /\ names' = names
        /\ issues' = issues
        /\ IF ev.url \in DOMAIN prs
           THEN prs' = prs /\ idx' = idx + 1 /\ UNCHANGED <<pc, err>>
           ELSE IF c.ok
           THEN prs' = Put(prs, ev.url, c.info) /\ idx' = idx + 1 /\ UNCHANGED <<pc, err>>
           ELSE prs' = prs /\ idx' = idx /\ Fatalf(c.msg)

AddIssue(ev) ==
    LET c == CrackPRInfo(ev.url)
    IN  /\ names' = AddName(names, ev.url, ev.title)
        /\ IF ev.isPR
           THEN /\ issues' = issues
                /\ IF c.ok
                   THEN prs' = Put(prs, ev.url, c.info) /\ idx' = idx + 1
                        /\ UNCHANGED <<pc, err>>
                   ELSE prs' = prs /\ idx' = idx /\ Fatalf(c.msg)
           ELSE /\ issues' = issues \cup {ev.url}
                /\ prs' = prs /\ idx' = idx + 1 /\ UNCHANGED <<pc, err>>

AddPR(ev) ==
    LET c == CrackPRInfo(ev.url)
    IN  /\ names' = AddName(names, ev.url, ev.title)
        /\ issues' = issues
        /\ IF ev.url \in DOMAIN prs
           THEN prs' = prs /\ idx' = idx + 1 /\ UNCHANGED <<pc, err>>
           ELSE IF c.ok
           THEN prs' = Put(prs, ev.url, c.info) /\ idx' = idx + 1 /\ UNCHANGED <<pc, err>>
           ELSE prs' = prs /\ idx' = idx /\ Fatalf(c.msg)

\* Second loop, case *github.IssueCommentEvent and case *github.IssuesEvent.
IssueStep ==
    /\ pc = "organize"
    /\ idx <= Len(parsed)
    /\ parsed[idx].kind \in IssueKinds
    /\ AddIssue(parsed[idx])
    /\ UNCHANGED <<parsed, newPRs, queries, es, out, crackIn, crackOut>>

\* Second loop, case *github.PullRequestEvent and *github.PullRequestReviewCommentEvent.
PRStep ==
    /\ pc = "organize"
    /\ idx <= Len(parsed)
    /\ parsed[idx].kind \in PRKinds
    /\ AddPR(parsed[idx])
    /\ UNCHANGED <<parsed, newPRs, queries, es, out, crackIn, crackOut>>

\* Second loop, the ignored kinds and the default case.
IgnoredStep ==
    /\ pc = "organize"
    /\ idx <= Len(parsed)
    /\ parsed[idx].kind \in IgnoredKinds
    /\ idx' = idx + 1
    /\ UNCHANGED <<pc, parsed, names, issues, prs, newPRs, queries, es, out, err,
                   crackIn, crackOut>>

-----------------------------------------------------------------------------
(* makeEventSets and getPRs *)

\* organizeEvents returns (its local slice goes out of scope); makeEventSets
\* allocates the six empty sets over the shared name map and enters getPRs.
MakeEventSetsBegin ==
    /\ pc = "organize"
    /\ idx > Len(parsed)
    /\ pc' = "getPRs"
    /\ parsed' = <<>>
    /\ idx' = 1
    /\ es' = [NoSets EXCEPT !.names = names]
    /\ newPRs' = EmptyMap
    /\ UNCHANGED <<names, issues, prs, queries, out, err, crackIn, crackOut>>

\* Variant of the range of getPRs that runs over e.names.
RangeNamesMut == DOMAIN names \ DOMAIN newPRs

\* The keys of e.prs that the range loop of getPRs has not visited yet.
RangePRs == DOMAIN prs \ DOMAIN newPRs

\* One iteration of getPRs whose query succeeds with answer r.
GetPROk(u, r) ==
    /\ pc = "getPRs"
    /\ u \in RangePRs
    /\ queries' = [queries EXCEPT ![u] = @ + 1]
    /\ newPRs' = Put(newPRs, u, r)
    /\ names' = OverrideName(names, u, r.title, r.htmlurl)
    /\ UNCHANGED <<pc, parsed, idx, issues, prs, es, out, err, crackIn, crackOut>>

\* One iteration of getPRs whose query fails.
GetPRFail(u) ==
    /\ pc = "getPRs"
    /\ u \in RangePRs
    /\ queries' = [queries EXCEPT ![u] = @ + 1]
    /\ Fatalf("Unable to get PR")
    /\ UNCHANGED <<parsed, idx, names, issues, prs, newPRs, es, out,
                   crackIn, crackOut>>

IsWorkInProgress(labels) == \E k \in 1..Len(labels) : labels[k] = WIPLabel

\* Variant of the loop body that looks at the state before the author.
CategoryStateFirstMut(pr) ==
    IF pr.state = "open"
    THEN (IF IsWorkInProgress(pr.labels) THEN "inProgress" ELSE "underReview")
    ELSE IF pr.state = "closed"
    THEN (IF pr.merged THEN "merged" ELSE "abandoned")
    ELSE IF pr.login # User THEN "reviewed"
    ELSE "none"

\* The body of the loop over prs in makeEventSets: the set the pull request joins.
Category(pr) ==
    IF pr.login # User THEN "reviewed"
    ELSE IF pr.state = "open"
    THEN (IF IsWorkInProgress(pr.labels) THEN "inProgress" ELSE "underReview")
    ELSE IF pr.state = "closed"
    THEN (IF pr.merged THEN "merged" ELSE "abandoned")
    ELSE "none"

InCategory(c) == {u \in DOMAIN newPRs : Category(newPRs[u]) = c}

\* getPRs has returned: both loops of makeEventSets and its return.
MakeEventSetsEnd ==
    /\ pc = "getPRs"
    /\ RangePRs = {}
    /\ es' = [merged      |-> InCategory("merged"),
              abandoned   |-> InCategory("abandoned"),
              underReview |-> InCategory("underReview"),
              inProgress  |-> InCategory("inProgress"),
              reviewed    |-> InCategory("reviewed"),
              issues      |-> issues,
              names       |-> names]
    /\ pc' = "markdown"
    /\ UNCHANGED <<parsed, idx, names, issues, prs, newPRs, queries, out, err,
                   crackIn, crackOut>>

-----------------------------------------------------------------------------
(* markdown and printSection *)

Heading == <<"*"," ","G","i","t","H","u","b">>
SubBullet == <<"\t", "*", " ">>
EntryBullet == <<"\t", "\t", "*", " ">>
Indent == <<" ", " ", " ", " ">>

Merged == <<"M","e","r","g","e","d">>
Abandoned == <<"A","b","a","n","d","o","n","e","d">>
UnderReview == <<"U","n","d","e","r"," ","R","e","v","i","e","w">>
InProgress == <<"I","n"," ","P","r","o","g","r","e","s","s">>
Reviewed == <<"R","e","v","i","e","w","e","d">>
Issues == <<"I","s","s","u","e","s">>

\* The orders in which a range loop may visit the keys of a map.
Orderings(S) ==
    {o \in [1..Cardinality(S) -> S] :
        \A a, b \in 1..Cardinality(S) : a # b => o[a] # o[b]}

\* Variant of printSection without the len(section) > 0 test.
PrintSectionAlwaysMut(nm, order, title) ==
    LET Named(u) == u \in DOMAIN nm
        named    == SelectSeq(order, Named)
    IN  <<SubBullet \o title>>
            \o [k \in 1..Len(named) |-> EntryBullet \o nm[named[k]]]

\* order is the order in which the range loop visits the section.
PrintSection(nm, order, title) ==
    LET Named(u) == u \in DOMAIN nm
        named    == SelectSeq(order, Named)
    IN  IF Len(order) > 0
        THEN <<SubBullet \o title>>
                \o [k \in 1..Len(named) |-> EntryBullet \o nm[named[k]]]
        ELSE <<>>

Markdown(e, o) ==
    LET md == <<Heading>>
                \o PrintSection(e.names, o[1], Merged)
                \o PrintSection(e.names, o[2], Abandoned)
                \o PrintSection(e.names, o[3], UnderReview)
                \o PrintSection(e.names, o[4], InProgress)
                \o PrintSection(e.names, o[5], Reviewed)
                \o PrintSection(e.names, o[6], Issues)
    IN  Replace(Join(md, <<"\n">>), "\t", Indent)

\* main: md := oe.markdown(); fmt.Println(md)
PrintReport ==
    /\ pc = "markdown"
    /\ \E o1 \in Orderings(es.merged), o2 \in Orderings(es.abandoned),
          o3 \in Orderings(es.underReview), o4 \in Orderings(es.inProgress),
          o5 \in Orderings(es.reviewed), o6 \in Orderings(es.issues) :
          out' = Markdown(es, <<o1, o2, o3, o4, o5, o6>>) \o <<"\n">>
    /\ pc' = "done"
    /\ UNCHANGED <<parsed, idx, names, issues, prs, newPRs, queries, es, err,
                   crackIn, crackOut>>

-----------------------------------------------------------------------------
(* The run of main() *)

Next ==
    \/ \E p \in Payloads : DecodeOk(p)
    \/ DecodeFail
    \/ DecodeDone
    \/ IssueStep
    \/ PRStep
    \/ IgnoredStep
    \/ MakeEventSetsBegin
    \/ \E u \in URLs : \E r \in Responses(u) : GetPROk(u, r)
    \/ \E u \in URLs : GetPRFail(u)
    \/ MakeEventSetsEnd
    \/ PrintReport

Spec == Init /\ [][Next]_vars

-----------------------------------------------------------------------------
(* crackPRInfo on its own: one call on an arbitrary short identifier *)

CrackAlphabet == {"o", "/", "4", "0", "-"}

HttpPrefix == <<"h","t","t","p",":","/","/","g","i","t","h","u","b",".","c","o","m","/">>

CrackPrefixes == {Prefix, HttpPrefix, <<>>}

CrackInputs ==
    {p \o r : p \in CrackPrefixes,
              r \in UNION {[1..n -> CrackAlphabet] : n \in 0..MaxRest}}

InitCrack ==
    /\ pc = "crack"
    /\ crackIn \in CrackInputs
    /\ crackOut = NoCrack
    /\ parsed = <<>>
    /\ idx = 1
    /\ names = EmptyMap
    /\ issues = {}
    /\ prs = EmptyMap
    /\ newPRs = EmptyMap
    /\ queries = [u \in URLs |-> 0]
    /\ es = NoSets
    /\ out = <<>>
    /\ err = ""

CrackStep ==
    /\ pc = "crack"
    /\ crackOut' = CrackPRInfo(crackIn)
    /\ IF CrackPRInfo(crackIn).ok
       THEN pc' = "cracked" /\ err' = err
       ELSE Fatalf(CrackPRInfo(crackIn).msg)
    /\ UNCHANGED <<parsed, idx, names, issues, prs, newPRs, queries, es, out, crackIn>>

NextCrack == CrackStep

SpecCrack == InitCrack /\ [][NextCrack]_vars

-----------------------------------------------------------------------------
(* markdown on its own: one rendering of an arbitrary eventSets value *)

MdIds == {U1, U2}

MdNames == {[u \in S |-> Format(TitleA, u)] : S \in SUBSET MdIds}

InitMd ==
    /\ pc = "markdown"
    /\ es \in [merged : SUBSET MdIds, abandoned : SUBSET MdIds,
               underReview : SUBSET MdIds, inProgress : SUBSET MdIds,
               reviewed : SUBSET MdIds, issues : SUBSET MdIds, names : MdNames]
    /\ names = es.names
    /\ parsed = <<>>
    /\ idx = 1
    /\ issues = {}
    /\ prs = EmptyMap
    /\ newPRs = EmptyMap
    /\ queries = [u \in URLs |-> 0]
    /\ out = <<>>
    /\ err = ""
    /\ crackIn = <<>>
    /\ crackOut = NoCrack

NextMd == PrintReport

SpecMd == InitMd /\ [][NextMd]_vars

-----------------------------------------------------------------------------
(* Vocabulary of the properties *)

Reconciled == pc \in {"markdown", "done"}

SixSets == <<es.merged, es.abandoned, es.underReview, es.inProgress, es.reviewed,
             es.issues>>

SixTitles == <<Merged, Abandoned, UnderReview, InProgress, Reviewed, Issues>>

Categorised == UNION {SixSets[k] : k \in 1..6}

Discovered == DOMAIN prs \cup issues

\* Self-authored pull requests whose fetched state is neither open nor closed.
UnknownState ==
    {u \in DOMAIN newPRs :
        newPRs[u].login = User /\ newPRs[u].state \notin {"open", "closed"}}

\* The lines of the printed report, without the newline Println appends.
ReportLines == Split(SubSeq(out, 1, Len(out) - 1), "\n")

SubHeadingLine(title) == Indent \o <<"*", " ">> \o title

EntryLine(name) == Indent \o Indent \o <<"*", " ">> \o name

IsEntry(l) == HasPrefix(l, Indent \o Indent \o <<"*", " ">>)

RECURSIVE ExpectedHeadings(_)
ExpectedHeadings(k) ==
    IF k = 0 THEN <<>>
    ELSE ExpectedHeadings(k - 1)
            \o (IF SixSets[k] # {} THEN <<SubHeadingLine(SixTitles[k])>> ELSE <<>>)

RECURSIVE MemberCount(_)
MemberCount(k) == IF k = 0 THEN 0 ELSE MemberCount(k - 1) + Cardinality(SixSets[k])

RECURSIVE NamedCount(_)
NamedCount(k) ==
    IF k = 0 THEN 0
    ELSE NamedCount(k - 1) + Cardinality(SixSets[k] \cap DOMAIN es.names)

\* Index of the first payload that refers to the identifier of payload k.
FirstFor(k) == CHOOSE j \in 1..k :
                   /\ parsed[j].url = parsed[k].url
                   /\ \A i \in 1..(j - 1) : parsed[i].url # parsed[k].url

-----------------------------------------------------------------------------
(* C1 *)

\* C1: after makeEventSets, the six category sets are pairwise disjoint,
\* whatever events were fed and whatever the remote query returned.
C1_PairwiseDisjoint ==
    Reconciled =>
        \A a, b \in 1..6 : a # b => SixSets[a] \cap SixSets[b] = {}

-----------------------------------------------------------------------------
(* C2 *)

\* C2: after makeEventSets, the union of the six sets is the set of discovered
\* identifiers minus exactly the self-authored pull requests whose fetched
\* state is neither open nor closed; those are in no category.
C2_UnionIsDiscovered ==
    Reconciled =>
        /\ Categorised = Discovered \ UnknownState
        /\ UnknownState \cap Categorised = {}

-----------------------------------------------------------------------------
(* C3 *)

\* C3: the category of a discovered pull request follows from its fetched
\* state alone: other author -> reviewed; else open with the WIP label ->
\* inProgress, open without -> underReview, closed and merged -> merged,
\* closed and not merged -> abandoned; it joins no other pull-request set.
C3_Precedence ==
    Reconciled =>
        \A u \in DOMAIN prs :
            LET r     == newPRs[u]
                wip   == \E k \in 1..Len(r.labels) : r.labels[k] = WIPLabel
                other == r.login # User
                only(k) == u \in SixSets[k]
                              /\ \A j \in 1..5 : j # k => u \notin SixSets[j]
            IN  /\ other => only(5)
                /\ ~other /\ r.state = "open" /\ wip => only(4)
                /\ ~other /\ r.state = "open" /\ ~wip => only(3)
                /\ ~other /\ r.state = "closed" /\ r.merged => only(1)
                /\ ~other /\ r.state = "closed" /\ ~r.merged => only(2)

\* A foreign pull request that is closed and merged sits in reviewed, next to
\* a self-authored open one carrying the WIP label in inProgress.
C3_Witness ==
    /\ pc = "done"
    /\ \E u \in es.reviewed : newPRs[u].state = "closed" /\ newPRs[u].merged
    /\ \E v \in es.inProgress : newPRs[v].login = User

-----------------------------------------------------------------------------
(* C4 *)

\* C4: during and at the end of discovery, the name registered for the
\* identifier of every processed issue or pull-request event is the label
\* formatted from the title of the first event processed for that identifier.
C4_FirstSeenWins ==
    pc = "organize" =>
        \A k \in 1..(idx - 1) :
            parsed[k].kind \in IssueKinds \cup PRKinds =>
                /\ parsed[k].url \in DOMAIN names
                /\ names[parsed[k].url]
                       = Format(parsed[FirstFor(k)].title, parsed[k].url)

\* Discovery has ended after two events of different kinds with different
\* titles for one identifier.
C4_Witness ==
    /\ pc = "organize"
    /\ Len(parsed) = 2
    /\ idx = 3
    /\ parsed[1].url = parsed[2].url
    /\ parsed[1].title # parsed[2].title
    /\ parsed[1].kind \in PRKinds
    /\ parsed[2].kind \in IssueKinds

-----------------------------------------------------------------------------
(* C5 *)

\* C5: once getPRs has completed, the name of every discovered pull request
\* is the label formatted from the fetched pull request; the returned
\* eventSets holds those names and the report prints them.
C5_ReconciledNames ==
    /\ (pc = "getPRs" /\ RangePRs = {}) \/ Reconciled =>
           \A u \in DOMAIN prs :
               names[u] = Format(newPRs[u].title, newPRs[u].htmlurl)
    /\ Reconciled =>
           \A u \in DOMAIN prs :
               es.names[u] = Format(newPRs[u].title, newPRs[u].htmlurl)
    /\ pc = "done" =>
           \A u \in DOMAIN prs \cap Categorised :
               \E k \in 1..Len(ReportLines) :
                   ReportLines[k]
                       = EntryLine(Format(newPRs[u].title, newPRs[u].htmlurl))

\* The report is out and U1, whose events carry the titles A or B only, is
\* under review with the fetched title R.
C5_Witness ==
    /\ pc = "done"
    /\ U1 \in es.underReview
    /\ newPRs[U1].title = TitleR
    /\ es.names[U1] = Format(TitleR, newPRs[U1].htmlurl)

-----------------------------------------------------------------------------
(* C6 *)

\* C6: whenever a fatal condition has occurred (undecodable payload, failed
\* URL decomposition, failed remote query) the run has ended and nothing was
\* printed.
C6_NoReportOnFatal == err # "" => pc = "exit" /\ out = <<>>

\* The remote query failed after another pull request had been reconciled.
C6_Witness ==
    /\ err = "Unable to get PR"
    /\ DOMAIN newPRs # {}
    /\ pc = "exit"

-----------------------------------------------------------------------------
(* C7 *)

Slashes(s) == {k \in 1..Len(s) : s[k] = "/"}

\* The k-th slash of s, from the left.
SlashAt(s, k) == CHOOSE p \in Slashes(s) :
                     Cardinality({q \in Slashes(s) : q < p}) = k - 1

\* The fourth /-delimited segment of s, s having at least three slashes.
FourthSegment(s) ==
    SubSeq(s, SlashAt(s, 3) + 1,
           IF Cardinality(Slashes(s)) >= 4 THEN SlashAt(s, 4) - 1 ELSE Len(s))

IsDecimal(t) == Len(t) > 0 /\ \A k \in 1..Len(t) : t[k] \in Digits

IsSignedDecimal(t) ==
    IsDecimal(t) \/ (Len(t) > 1 /\ t[1] \in {"+", "-"} /\ IsDecimal(Tail(t)))

RECURSIVE Value(_)
Value(t) ==
    IF t[1] = "-" THEN 0 - Value(Tail(t))
    ELSE IF t[1] = "+" THEN Value(Tail(t))
    ELSE IF Len(t) = 1 THEN DigitVal(t[1])
    ELSE 10 * Value(SubSeq(t, 1, Len(t) - 1)) + DigitVal(t[Len(t)])

CrackRest == SubSeq(crackIn, Len(Prefix) + 1, Len(crackIn))

\* The prefix is there and the rest has at least four segments.
CrackShape ==
    /\ Len(crackIn) >= Len(Prefix)
    /\ SubSeq(crackIn, 1, Len(Prefix)) = Prefix
    /\ Cardinality(Slashes(CrackRest)) >= 3

CrackResult ==
    [owner  |-> SubSeq(CrackRest, 1, SlashAt(CrackRest, 1) - 1),
     repo   |-> SubSeq(CrackRest, SlashAt(CrackRest, 1) + 1, SlashAt(CrackRest, 2) - 1),
     number |-> Value(FourthSegment(CrackRest))]

IsPositiveDecimal(t) == IsSignedDecimal(t) /\ Value(t) > 0

\* C7 as stated: crackPRInfo succeeds exactly when the identifier has the
\* prefix, at least four segments and a fourth segment that is a positive
\* integer, and then returns owner, repository and number; otherwise it aborts.
C7_CrackPositive ==
    pc # "crack" =>
        /\ crackOut.ok <=> (CrackShape /\ IsPositiveDecimal(FourthSegment(CrackRest)))
        /\ crackOut.ok => pc = "cracked" /\ crackOut.info = CrackResult
        /\ ~crackOut.ok => pc = "exit" /\ err # ""

\* C7 as amended: the fourth segment has to be a decimal integer with an
\* optional sign; zero and negative numbers are accepted.
C7_CrackSigned ==
    pc # "crack" =>
        /\ crackOut.ok <=> (CrackShape /\ IsSignedDecimal(FourthSegment(CrackRest)))
        /\ crackOut.ok => pc = "cracked" /\ crackOut.info = CrackResult
        /\ ~crackOut.ok => pc = "exit" /\ err # ""

\* crackPRInfo returned a negative pull-request number.
C7_Witness ==
    /\ pc = "cracked"
    /\ crackOut.ok
    /\ crackOut.info.number < 0
    /\ crackOut.info.owner = <<"o">>

-----------------------------------------------------------------------------
(* C8 *)

\* C8: the report starts with the top-level heading; its sub-headings are
\* those of the non-empty categories, in the order Merged, Abandoned, Under
\* Review, In Progress, Reviewed, Issues; every other line is the entry of a
\* named member, so an empty category contributes no line.
C8_Headings ==
    pc = "done" =>
        /\ ReportLines[1] = Heading
        /\ SelectSeq(Tail(ReportLines), LAMBDA l : ~IsEntry(l)) = ExpectedHeadings(6)
        /\ Len(SelectSeq(ReportLines, IsEntry)) = NamedCount(6)

\* A report was printed for a partition whose abandoned set is empty while
\* merged and issues are not.
C8_Witness ==
    /\ pc = "done"
    /\ es.abandoned = {}
    /\ es.merged # {}
    /\ es.issues # {}
    /\ es.merged \subseteq DOMAIN es.names

-----------------------------------------------------------------------------
(* C9 *)

\* C9: the name map covers the keys of prs and of issues in every state, so
\* every category member has a name and is printed as exactly one entry line.
C9_NamesCover ==
    /\ Discovered \subseteq DOMAIN names
    /\ Reconciled => Categorised \subseteq DOMAIN es.names
    /\ pc = "done" =>
           Len(SelectSeq(ReportLines, IsEntry)) = MemberCount(6)

\* A report with two categories in use.
C9_Witness ==
    /\ pc = "done"
    /\ es.issues # {}
    /\ es.merged # {}
    /\ Len(SelectSeq(ReportLines, IsEntry)) = 2

-----------------------------------------------------------------------------
(* C10 *)

\* C10: no identifier is queried more than once, none is queried unless it is
\* a key of prs, and once reconciliation is complete every key of prs has
\* been queried exactly once.
C10_QueriedOnce ==
    /\ \A u \in URLs : queries[u] <= 1 /\ (queries[u] > 0 => u \in DOMAIN prs)
    /\ Reconciled =>
           \A u \in URLs : queries[u] = (IF u \in DOMAIN prs THEN 1 ELSE 0)

\* Reconciliation completed with one pull request queried and one plain issue
\* never queried.
C10_Witness ==
    /\ pc = "done"
    /\ U1 \in DOMAIN prs
    /\ U2 \in issues \ DOMAIN prs
    /\ queries[U1] = 1
    /\ queries[U2] = 0

=============================================================================
